---- MODULE Spec2Model ----
(***************************************************************************)
(* Model of BasicRealEstateScraper (final1.py): extract_price,             *)
(* scrape_listings, analyze_keywords and the part of main() that chains    *)
(* them.                                                                   *)
(*                                                                         *)
(* Texts are sequences of one-character strings.  Python's None is the     *)
(* one-element tuple None; a float is the pair <<n, d>> standing for       *)
(* n / 10^d with trailing fractional zeros removed, so two floats are      *)
(* equal exactly when their pairs are equal.                               *)
(***************************************************************************)
EXTENDS Integers, Sequences, FiniteSets, TLC

\* ---------------------------------------------------------------- bounds
MaxLen == 3      \* longest price text given to extract_price on its own
MaxPages == 2    \* largest max_pages
MaxCards == 2    \* most cards on one page
MaxPairs == 2    \* most (score, phrase) pairs the phrase ranker returns

\* ------------------------------------------------------------- constants
TopN == 20

None == <<"None">>
ValueError == <<"ValueError">>
base_url == <<"https://www.magicbricks.com">>

Digits == {"0", "5"}
Alphabet == Digits \cup {".", "x"}

DigitVal(c) == IF c = "5" THEN 5 ELSE 0

\* ------------------------------------------------------------ text tools
Strip(s) ==
  LET nonsp == {i \in 1..Len(s) : s[i] # " "}
  IN IF nonsp = {} THEN <<>>
     ELSE LET lo == CHOOSE i \in nonsp : \A j \in nonsp : i <= j
              hi == CHOOSE i \in nonsp : \A j \in nonsp : i >= j
          IN SubSeq(s, lo, hi)

\* re.search(r'[\d.]+', s): leftmost, longest run of digits and dots
InClass(c) == c \in Digits \cup {"."}

SearchPrice(s) ==
  LET hits == {i \in 1..Len(s) : InClass(s[i])}
  IN IF hits = {} THEN None
     ELSE LET lo == CHOOSE i \in hits : \A j \in hits : i <= j
              ends == {j \in lo..Len(s) : \A k \in lo..j : InClass(s[k])}
              hi == CHOOSE j \in ends : \A k \in ends : j >= k
          IN SubSeq(s, lo, hi)

RECURSIVE DigitsToInt(_)
DigitsToInt(s) ==
  IF s = <<>> THEN 0
  ELSE 10 * DigitsToInt(SubSeq(s, 1, Len(s) - 1)) + DigitVal(s[Len(s)])

RECURSIVE Normalize(_, _)
Normalize(n, d) ==
  IF d > 0 /\ n % 10 = 0 THEN Normalize(n \div 10, d - 1) ELSE <<n, d>>

\* float(m) for m made of digits and dots: "85", "85.", ".5", "8.5" parse;
\* ".", "1.2.3", "5..0" raise ValueError
Float(m) ==
  LET dots == {i \in 1..Len(m) : m[i] = "."}
      digs == SelectSeq(m, LAMBDA c : c \in Digits)
  IN IF Cardinality(dots) > 1 \/ digs = <<>> THEN ValueError
     ELSE LET p == IF dots = {} THEN Len(m) + 1 ELSE CHOOSE i \in dots : TRUE
          IN Normalize(DigitsToInt(digs), Len(m) + 1 - p - (IF dots = {} THEN 0 ELSE 1))

extract_price(price_text) ==
  IF price_text = None \/ price_text = <<>> THEN None
  ELSE LET price_match == SearchPrice(price_text)
       IN IF price_match # None THEN Float(price_match) ELSE None


\* analyze_sentiment: TextBlob's polarity is an external pure function of the
\* text, kept as the uninterpreted term <<"polarity", text>>
analyze_sentiment(text) ==
  IF text # None /\ text # <<>> THEN <<"polarity">> \o text ELSE None

\* ----------------------------------------------------------------- cards
Elem(t) == [present |-> TRUE, text |-> t]
NoElem == [present |-> FALSE, text |-> <<>>]
Link(h) == [present |-> TRUE, has_href |-> TRUE, href |-> h]
LinkNoHref == [present |-> TRUE, has_href |-> FALSE, href |-> <<>>]
NoLink == [present |-> FALSE, has_href |-> FALSE, href |-> <<>>]

Card(p, t, ar, l) == [price_elem |-> p, title_elem |-> t, area_elem |-> ar, a |-> l]

\* the cards a page is built from: every branch of lines 65-78 has a card
CardSet ==
  { Card(Elem(<<" ", "5", "x">>), Elem(<<"A", " ">>), Elem(<<"a">>), Link(<<"/", "1">>)),
    Card(Elem(<<"0", ".", "5">>), NoElem, NoElem, NoLink),
    Card(NoElem, Elem(<<"B">>), Elem(<<"a">>), Link(<<"/", "2">>)),
    Card(Elem(<<"x">>), Elem(<<"C">>), NoElem, NoLink),
    Card(Elem(<<"0", ".", "0", "x">>), Elem(<<"D">>), NoElem, Link(<<"/", "3">>)),
    Card(Elem(<<"5">>), Elem(<<"E">>), NoElem, LinkNoHref),
    Card(Elem(<<"x", ".", " ", "5">>), Elem(<<"F">>), NoElem, NoLink) }

CardSeqs == UNION {[1..n -> CardSet] : n \in 0..MaxCards}

ElemText(e) == IF e.present THEN Strip(e.text) ELSE None

NoListing == [price |-> None, title |-> None, area |-> None, url |-> None, sentiment |-> None]

\* lines 64-76: the listing built from one card, or the exception that the
\* card's try block catches (ValueError from float, KeyError from ['href'])
ProcessCard(card) ==
  LET price == extract_price(ElemText(card.price_elem))
      title == ElemText(card.title_elem)
  IN IF price = ValueError THEN [raised |-> TRUE, listing |-> NoListing]
     ELSE IF card.a.present /\ ~card.a.has_href THEN [raised |-> TRUE, listing |-> NoListing]
     ELSE [raised |-> FALSE,
           listing |-> [price |-> price,
                        title |-> title,
                        area |-> ElemText(card.area_elem),
                        url |-> IF card.a.present THEN base_url \o card.a.href ELSE None,
                        sentiment |-> analyze_sentiment(title)]]

\* line 78: if listing['price'] -- None and 0.0 are both falsy
KeepIfNotNone(listing) == listing.price # None
KeepAlways(listing) == TRUE
KeepListing(listing) == listing.price # None /\ listing.price # <<0, 0>>

\* line 79: listings.append(listing)
AppendListingFront(acc, listing) == <<listing>> \o acc
AppendListing(acc, listing) == Append(acc, listing)

\* line 84: continue -- the card loop goes on with the next card
NextCardBreak(i, n) == n + 1
NextCardAfterError(i, n) == i + 1

\* lines 57 and 90: continue -- the page loop goes on with the next index
NextPageBreak(p, n) == n + 1
NextPageAfterFailure(p, n) == p + 1

\* lines 92-94: pd.DataFrame(listings); an empty list gives a frame with no
\* columns at all
DataFrame(rows) ==
  [columns |-> IF rows = <<>> THEN {} ELSE {"price", "title", "area", "url", "sentiment"},
   rows |-> rows]
EmptyFrame == [columns |-> {}, rows |-> <<>>]

\* ------------------------------------------------------- analyze_keywords
Scores == {1, 2}
Phrases == {"p", "q"}
Pairs == [score : Scores, keyword : Phrases]
RankedLists == UNION {[1..n -> Pairs] : n \in 0..MaxPairs}

\* line 98: " ".join(df['title'].dropna())
RECURSIVE Join(_)
Join(ts) ==
  IF ts = <<>> THEN <<>>
  ELSE IF Len(ts) = 1 THEN ts[1]
  ELSE ts[1] \o <<" ">> \o Join(Tail(ts))

TitleColumn(frame) == [i \in 1..Len(frame.rows) |-> frame.rows[i].title]
DropNa(col) == SelectSeq(col, LAMBDA v : v # None)

\* lines 99-100: the phrase ranker is external; an empty text has no phrase,
\* any other text may give any list of pairs
Ranker(text) == IF text = <<>> THEN {<<>>} ELSE RankedLists

\* drop_duplicates(): a row is dropped when an earlier row equals it in
\* every column
DropDuplicates(s) ==
  LET keep == {i \in 1..Len(s) : \A j \in 1..(i - 1) : s[j] # s[i]}
      f[i \in 0..Len(s)] ==
        IF i = 0 THEN <<>> ELSE IF i \in keep THEN Append(f[i - 1], s[i]) ELSE f[i - 1]
  IN f[Len(s)]

\* sort_values(by='score', ascending=False): the order of rows with equal
\* scores is not fixed by the default sort
SortValues(s) ==
  {t \in [1..Len(s) -> {s[i] : i \in 1..Len(s)}] :
     /\ \A i \in 1..Len(s) : \E j \in 1..Len(s) : t[j] = s[i]
     /\ \A i \in 1..Len(s) : Cardinality({j \in 1..Len(s) : t[j] = t[i]})
                             = Cardinality({j \in 1..Len(s) : s[j] = t[i]})
     /\ \A i \in 1..(Len(s) - 1) : t[i].score >= t[i + 1].score}

\* head(20)
HeadRows(s, n) == IF Len(s) <= n THEN s ELSE SubSeq(s, 1, n)

\* ------------------------------------------------------------------ state
VARIABLES pc, max_pages, page, property_cards, idx, listings, df,
          fetched, outcomes, slept, pageBase, expected,
          keywords, top_keywords,
          pricePc, price_text, price_result

vars == <<pc, max_pages, page, property_cards, idx, listings, df,
          fetched, outcomes, slept, pageBase, expected,
          keywords, top_keywords,
          pricePc, price_text, price_result>>

scrapeVars == <<pc, max_pages, page, property_cards, idx, listings, df,
                fetched, outcomes, slept, pageBase, expected,
                keywords, top_keywords>>
priceVars == <<pricePc, price_text, price_result>>

\* what the card loop is to yield for a list of cards: the listings of the
\* cards that raise nothing and carry a price that is a number other than
\* zero, in card order
RECURSIVE Yielded(_)
Yielded(cs) ==
  IF cs = <<>> THEN <<>>
  ELSE LET r == ProcessCard(Head(cs))
       IN (IF ~r.raised /\ r.listing.price # None /\ r.listing.price[1] # 0
           THEN <<r.listing>> ELSE <<>>) \o Yielded(Tail(cs))

\* main() with max_pages left open: state after the constructor, line 146
Init ==
  /\ pc = "fetch"
  /\ max_pages \in 1..MaxPages
  /\ page = 1
  /\ property_cards = <<>>
  /\ idx = 1
  /\ listings = <<>>
  /\ df = EmptyFrame
  /\ fetched = <<>>
  /\ outcomes = <<>>
  /\ slept = <<>>
  /\ pageBase = <<>>
  /\ expected = <<>>
  /\ keywords = <<>>
  /\ top_keywords = <<>>
  /\ pricePc = "idle"
  /\ price_text = None
  /\ price_result = None

\* lines 54-57: the response's status is not 200 -> continue
StatusNot200 ==
  /\ pc = "fetch" /\ page <= max_pages
  /\ fetched' = Append(fetched, page)
  /\ outcomes' = Append(outcomes, "status")
  /\ page' = NextPageAfterFailure(page, max_pages)
  /\ UNCHANGED <<pc, max_pages, property_cards, idx, listings, df, slept, pageBase,
                 expected, keywords, top_keywords>>
  /\ UNCHANGED priceVars

\* lines 54-61, 88-90: requests.get raises ("transport"), or BeautifulSoup /
\* find_all raises after a 200 ("parse") -> except, continue
PageException ==
  /\ pc = "fetch" /\ page <= max_pages
  /\ \E kind \in {"transport", "parse"} : outcomes' = Append(outcomes, kind)
  /\ fetched' = Append(fetched, page)
  /\ page' = NextPageAfterFailure(page, max_pages)
  /\ UNCHANGED <<pc, max_pages, property_cards, idx, listings, df, slept, pageBase,
                 expected, keywords, top_keywords>>
  /\ UNCHANGED priceVars

\* lines 54-61: status 200, the page parses into its cards
FetchOk ==
  /\ pc = "fetch" /\ page <= max_pages
  /\ \E cs \in CardSeqs :
       /\ property_cards' = cs
       /\ expected' = expected \o Yielded(cs)
  /\ fetched' = Append(fetched, page)
  /\ outcomes' = Append(outcomes, "ok")
  /\ idx' = 1
  /\ pageBase' = listings
  /\ pc' = "cards"
  /\ UNCHANGED <<max_pages, page, listings, df, slept, keywords, top_keywords>>
  /\ UNCHANGED priceVars

\* lines 63-84: one iteration of the card loop
CardStep ==
  /\ pc = "cards" /\ idx <= Len(property_cards)
  /\ LET r == ProcessCard(property_cards[idx])
     IN IF r.raised
        THEN /\ idx' = NextCardAfterError(idx, Len(property_cards))
             /\ UNCHANGED listings
        ELSE /\ idx' = idx + 1
             /\ listings' = IF KeepListing(r.listing)
                            THEN AppendListing(listings, r.listing)
                            ELSE listings
  /\ UNCHANGED <<pc, max_pages, page, property_cards, df, fetched, outcomes, slept,
                 pageBase, expected, keywords, top_keywords>>
  /\ UNCHANGED priceVars

\* the end of the try block without the sleep
SleepSkipped ==
  /\ pc = "cards" /\ idx > Len(property_cards)
  /\ page' = page + 1
  /\ property_cards' = <<>>
  /\ idx' = 1
  /\ pc' = "fetch"
  /\ UNCHANGED <<max_pages, listings, df, fetched, outcomes, slept, pageBase, expected,
                 keywords, top_keywords>>
  /\ UNCHANGED priceVars

\* line 86: sleep(2) at the end of the try block, then the next page
Sleep ==
  /\ pc = "cards" /\ idx > Len(property_cards)
  /\ slept' = Append(slept, page)
  /\ page' = page + 1
  /\ property_cards' = <<>>
  /\ idx' = 1
  /\ pc' = "fetch"
  /\ UNCHANGED <<max_pages, listings, df, fetched, outcomes, pageBase, expected,
                 keywords, top_keywords>>
  /\ UNCHANGED priceVars

\* lines 92-94: the loop is over, the frame is built and returned to main
Return ==
  /\ pc = "fetch" /\ page > max_pages
  /\ df' = DataFrame(listings)
  /\ pc' = "returned"
  /\ UNCHANGED <<max_pages, page, property_cards, idx, listings, fetched, outcomes,
                 slept, pageBase, expected, keywords, top_keywords>>
  /\ UNCHANGED priceVars

\* line 157, lines 96-106: analyze_keywords(df); df['title'] raises KeyError
\* when the frame has no such column, and main ends with that error
AnalyzeKeywords ==
  /\ pc = "returned"
  /\ IF "title" \notin df.columns
     THEN /\ pc' = "KeyError"
          /\ UNCHANGED <<keywords, top_keywords>>
     ELSE /\ \E kw \in Ranker(Join(DropNa(TitleColumn(df)))) :
               /\ keywords' = kw
               /\ \E sorted \in SortValues(DropDuplicates(kw)) :
                    top_keywords' = HeadRows(sorted, TopN)
          /\ pc' = "analyzed"
  /\ UNCHANGED <<max_pages, page, property_cards, idx, listings, df, fetched, outcomes,
                 slept, pageBase, expected>>
  /\ UNCHANGED priceVars

Next ==
  \/ StatusNot200
  \/ PageException
  \/ FetchOk
  \/ CardStep
  \/ Sleep
  \/ Return
  \/ AnalyzeKeywords

Spec == Init /\ [][Next]_vars

\* ------------------------------------------- extract_price on its own
PriceTexts == {None} \cup UNION {[1..n -> Alphabet] : n \in 0..MaxLen}

InitPrice ==
  /\ pc = "idle"
  /\ max_pages = 1
  /\ page = 1
  /\ property_cards = <<>>
  /\ idx = 1
  /\ listings = <<>>
  /\ df = EmptyFrame
  /\ fetched = <<>>
  /\ outcomes = <<>>
  /\ slept = <<>>
  /\ pageBase = <<>>
  /\ expected = <<>>
  /\ keywords = <<>>
  /\ top_keywords = <<>>
  /\ pricePc = "call"
  /\ price_text \in PriceTexts
  /\ price_result = None

\* lines 29-36: one call; a ValueError leaves the function as an exception
CallExtractPrice ==
  /\ pricePc = "call"
  /\ price_result' = extract_price(price_text)
  /\ pricePc' = IF extract_price(price_text) = ValueError THEN "raised" ELSE "returned"
  /\ UNCHANGED price_text
  /\ UNCHANGED scrapeVars

NextPrice == CallExtractPrice

SpecPrice == InitPrice /\ [][NextPrice]_vars


\* ================================================================ claims
Returned == pc \in {"returned", "analyzed", "KeyError"}
Failed(i) == outcomes[i] # "ok"
Raises(card) == ProcessCard(card).raised
PriceOf(card) == extract_price(ElemText(card.price_elem))

\* C1: whatever the outcome of each page, the pages 1..max_pages are fetched
\* once each in increasing order, the run never returns before page
\* max_pages has been fetched, and what it returns is the accumulator.
C1_OneFetchPerPageInOrder ==
  /\ Len(fetched) <= max_pages
  /\ \A i \in 1..Len(fetched) : fetched[i] = i
  /\ Len(outcomes) = Len(fetched)
  /\ Returned => (Len(fetched) = max_pages /\ df.rows = listings)

C1_Witness ==
  /\ pc = "returned"
  /\ \E i \in 1..Len(outcomes) : \E j \in 1..Len(outcomes) :
       i < j /\ Failed(i) /\ outcomes[j] = "ok"

\* C2: the returned collection is the concatenation, in page order and card
\* order, of what the card loop yields for the pages fetched with success; a
\* failed page adds nothing.
C2_OutputIsConcatenation ==
  Returned => (df.rows = expected /\ Len(df.rows) = Len(expected))

C2_Witness ==
  /\ pc = "returned"
  /\ \E i \in 1..Len(outcomes) : Failed(i)
  /\ Len(df.rows) >= 2
  /\ df.rows[1] # df.rows[2]

\* C3: no listing of the accumulator (or of the returned frame) has an
\* absent price.
C3_NoAbsentPrice ==
  /\ \A i \in 1..Len(listings) : listings[i].price # None
  /\ \A i \in 1..Len(df.rows) : df.rows[i].price # None

C3_Witness ==
  /\ pc = "cards"
  /\ listings # <<>>
  /\ \E j \in 1..(idx - 1) : ~property_cards[j].price_elem.present
                             /\ property_cards[j].title_elem.present
  /\ \E j \in 1..(idx - 1) : property_cards[j].price_elem.present
                             /\ PriceOf(property_cards[j]) = None

\* C4 as claimed: every page, failed or not, is followed by one pacing delay
\* before the next fetch or the return.
C4_DelayUnconditional ==
  pc # "cards" => slept = [i \in 1..(page - 1) |-> i]

\* C4 amended: the delay follows exactly the pages that were fetched with
\* status 200 and whose cards were all processed, once each; a page that
\* failed is followed by no delay.
OkPages(k) == SelectSeq([i \in 1..k |-> i], LAMBDA i : outcomes[i] = "ok")

C4_DelayAfterProcessedPagesOnly ==
  /\ pc # "cards" => slept = OkPages(Len(outcomes))
  /\ pc = "cards" => slept = OkPages(Len(outcomes) - 1)

C4_Witness ==
  /\ pc = "returned"
  /\ slept # <<>>
  /\ \E i \in 1..Len(outcomes) : Failed(i)

FirstDigitRun(s) ==
  LET ds == {i \in 1..Len(s) : s[i] \in Digits}
      lo == CHOOSE i \in ds : \A j \in ds : i <= j
      RunEnd(from) ==
        LET ends == {j \in from..Len(s) : \A k \in from..j : s[k] \in Digits}
        IN CHOOSE j \in ends : \A k \in ends : j >= k
      mid == RunEnd(lo)
  IN IF mid + 2 <= Len(s) /\ s[mid + 1] = "." /\ s[mid + 2] \in Digits
     THEN SubSeq(s, lo, RunEnd(mid + 2))
     ELSE SubSeq(s, lo, mid)

HasDigit(s) == s # None /\ \E i \in 1..Len(s) : s[i] \in Digits

C6_FirstDigitRunParsed ==
  pricePc # "call" =>
    /\ pricePc = "returned"
    /\ price_result = IF HasDigit(price_text) THEN Float(FirstDigitRun(price_text))
                      ELSE None

\* C7: when every page fails, the returned collection is empty and
\* analyze_keywords gives an empty result, not an error.
C7_AllFailedGivesEmptyKeywords ==
  (Returned /\ \A i \in 1..Len(outcomes) : Failed(i)) =>
    /\ df.rows = <<>>
    /\ pc # "KeyError"
    /\ pc = "analyzed" => top_keywords = <<>>

\* C8: a card that raises adds nothing and disturbs nothing: while a page is
\* processed the accumulator is what it was when the page began, followed by
\* the listings of the cards handled so far that raise nothing and have a
\* price, in card order.
C8_CardFailureConfined ==
  pc = "cards" =>
    /\ idx <= Len(property_cards) + 1
    /\ listings = pageBase \o Yielded(SubSeq(property_cards, 1, idx - 1))

C8_Witness ==
  /\ pc = "cards"
  /\ pageBase # <<>>
  /\ \E j \in 1..(idx - 1) : \E k \in 1..(idx - 1) :
       /\ j < k
       /\ Raises(property_cards[j])
       /\ Yielded(<<property_cards[k]>>) # <<>>

\* C9: a card with a price whose link is missing, or present without an
\* href, yields a listing with url None and the other fields as extracted.
C9_LinkIsOptional ==
  (pc = "cards" /\ idx > 1) =>
    LET c == property_cards[idx - 1]
    IN (PriceOf(c) \notin {None, ValueError, <<0, 0>>} /\ ~(c.a.present /\ c.a.has_href)) =>
         /\ listings # <<>>
         /\ listings[Len(listings)].url = None
         /\ listings[Len(listings)].price = PriceOf(c)
         /\ listings[Len(listings)].title = ElemText(c.title_elem)

\* C10: every listing accumulated or returned has a price that is a number
\* other than zero; a card whose price text parses to 0 is dropped.
IsNonZeroNumber(v) == v \notin {None, ValueError} /\ v # <<0, 0>> /\ Len(v) = 2

C10_NoZeroPrice ==
  /\ \A i \in 1..Len(df.rows) : IsNonZeroNumber(df.rows[i].price)
  /\ \A i \in 1..Len(listings) : IsNonZeroNumber(listings[i].price)

C10_Witness ==
  /\ pc = "cards"
  /\ idx > Len(property_cards)
  /\ page = max_pages
  /\ listings # <<>>
  /\ \E j \in 1..Len(property_cards) : PriceOf(property_cards[j]) = <<0, 0>>

====
